---------------------------- MODULE Spec2Model ----------------------------
(***************************************************************************)
(* The asynchronous job subsystem of the financial document analyzer       *)
(* (src/main.py): the /analyze submission handler, the worker tasks, the   *)
(* in-memory job_store, the asyncio job_queue, the optional MongoDB mirror *)
(* and the shutdown hook.  asyncio runs one coroutine at a time, so every  *)
(* action below is the code between two suspension points (awaits that     *)
(* really yield).                                                          *)
(***************************************************************************)
EXTENDS Integers, Sequences, FiniteSets, TLC

\* main.py:28  WORKER_CONCURRENCY = int(os.getenv("WORKER_CONCURRENCY", "2"))
WORKER_CONCURRENCY == 2

\* Number of POST /analyze calls the environment makes.
MaxJobs == 2

Workers == 1..WORKER_CONCURRENCY
\* One request slot per call; a valid call draws a fresh uuid4, modelled as
\* the number of the call.
JobIds == 1..MaxJobs

NoJob == 0

\* Uploaded file names, as character sequences.
Filenames ==
    { <<"R", ".", "P", "D", "F">>, <<"r", ".", "t", "x", "t">>, <<"p", "d", "f">> }

\* Contents of an uploaded PDF: one with text, one without extractable text.
Uploads == {"report", "blank"}

\* The file just opened with "wb", before f.write.
EmptyFile == "empty"

VARIABLES
    job_store,         \* main.py:34  job_id -> job dict (a function on its keys)
    job_queue,         \* main.py:32  asyncio.Queue of job ids (its deque)
    unfinished_tasks,  \* asyncio.Queue's count of items not yet task_done()
    files,             \* DATA_DIR: file_path -> content, for the files that exist
    mongo_db,          \* main.py:37  "None" or "db"
    mirror_health,     \* the MongoDB server: "healthy" or "flaky"
    mongo_closed,      \* main.py:146 mongo_client.close() was called
    analyses,          \* mongo_db.analyses: job_id -> last snapshot upserted
    upserts,           \* job_id -> statuses of the snapshots upserted, in order
    pc,                \* worker -> where the task is suspended
    cur,               \* worker -> job_id local of worker_loop
    fut,               \* worker -> the run_in_executor future
    pending,           \* worker -> exception the finally block will re-raise
    cancel,            \* worker -> task.cancel() requested, not yet delivered
    req,               \* request -> where the /analyze handler is suspended
    upload,            \* request -> content being uploaded
    nextReq,           \* number of the next /analyze call
    shutdown,          \* shutdown_event has run
    calls_at_shutdown, \* nextReq when shutdown_event ran (0 before)
    response,          \* the HTTP response produced by the step just taken
    removed,           \* job whose artifact os.remove deleted in the step just taken
    tool_in,           \* the argument a scoring tool of tools.py is called with
    tool_out,          \* what the tool returned or raised
    enq, deq, term     \* job_id -> number of puts, gets, terminal transitions

vars == << job_store, job_queue, unfinished_tasks, files, mongo_db,
           mirror_health, mongo_closed, analyses, upserts, pc, cur, fut,
           pending, cancel, req, upload, nextReq, shutdown, calls_at_shutdown,
           response, removed, tool_in, tool_out,
           enq, deq, term >>

\* The variables of the job subsystem.
service_vars ==
    << job_store, job_queue, unfinished_tasks, files, mongo_db,
       mirror_health, mongo_closed, analyses, upserts, pc, cur, fut,
       pending, cancel, req, upload, nextReq, shutdown, calls_at_shutdown,
       response, removed, enq, deq, term >>

\* The whole state as one record, so that the straight-line code of a handler
\* can be written as a composition of state transformers.
State ==
    [ job_store |-> job_store, job_queue |-> job_queue,
      unfinished_tasks |-> unfinished_tasks, files |-> files,
      mongo_db |-> mongo_db, mirror_health |-> mirror_health,
      mongo_closed |-> mongo_closed, analyses |-> analyses,
      upserts |-> upserts, pc |-> pc, cur |-> cur, fut |-> fut,
      pending |-> pending, cancel |-> cancel, req |-> req, upload |-> upload,
      nextReq |-> nextReq, shutdown |-> shutdown,
      calls_at_shutdown |-> calls_at_shutdown,
      response |-> response, removed |-> removed,
      enq |-> enq, deq |-> deq, term |-> term ]

Becomes(n) ==
    /\ job_store' = n.job_store
    /\ job_queue' = n.job_queue
    /\ unfinished_tasks' = n.unfinished_tasks
    /\ files' = n.files
    /\ mongo_db' = n.mongo_db
    /\ mirror_health' = n.mirror_health
    /\ mongo_closed' = n.mongo_closed
    /\ analyses' = n.analyses
    /\ upserts' = n.upserts
    /\ pc' = n.pc
    /\ cur' = n.cur
    /\ fut' = n.fut
    /\ pending' = n.pending
    /\ cancel' = n.cancel
    /\ req' = n.req
    /\ upload' = n.upload
    /\ nextReq' = n.nextReq
    /\ shutdown' = n.shutdown
    /\ calls_at_shutdown' = n.calls_at_shutdown
    /\ response' = n.response
    /\ removed' = n.removed
    /\ enq' = n.enq
    /\ deq' = n.deq
    /\ term' = n.term
    /\ UNCHANGED << tool_in, tool_out >>

-----------------------------------------------------------------------------
(* Python dicts and small helpers *)

EmptyDict == [k \in {} |-> 0]

\* d[k] = v
SetKey(d, k, v) == [x \in DOMAIN d \cup {k} |-> IF x = k THEN v ELSE d[x]]

HasKey(d, k) == k \in DOMAIN d

\* del d[k] / os.remove: the mapping without k
DropKey(d, k) == [x \in DOMAIN d \ {k} |-> d[x]]

\* str.lower() on the characters the model uses
UpperLetters ==
    << "A", "B", "C", "D", "E", "F", "G", "H", "I", "J", "K", "L", "M",
       "N", "O", "P", "Q", "R", "S", "T", "U", "V", "W", "X", "Y", "Z" >>

LowerLetters ==
    << "a", "b", "c", "d", "e", "f", "g", "h", "i", "j", "k", "l", "m",
       "n", "o", "p", "q", "r", "s", "t", "u", "v", "w", "x", "y", "z" >>

LowerChar(c) ==
    IF \E i \in DOMAIN UpperLetters : UpperLetters[i] = c
    THEN LowerLetters[CHOOSE i \in DOMAIN UpperLetters : UpperLetters[i] = c]
    ELSE c

Lower(s) == [i \in 1..Len(s) |-> LowerChar(s[i])]

\* str.endswith
EndsWith(s, suffix) ==
    /\ Len(s) >= Len(suffix)
    /\ SubSeq(s, Len(s) - Len(suffix) + 1, Len(s)) = suffix

PdfSuffix == <<".", "p", "d", "f">>

\* "responses": what a step hands back to the HTTP caller
NoResponse == [op |-> "none", code |-> 0, job_id |-> NoJob, job |-> EmptyDict]

Reply(op, code, id, job) == [op |-> op, code |-> code, job_id |-> id, job |-> job]

\* The future of run_in_executor
NoFuture == [state |-> "none", value |-> ""]
PendingFuture == [state |-> "pending", value |-> ""]

NoException == "none"
CancelledError == "CancelledError"

-----------------------------------------------------------------------------
(* tools.py: the extraction stage, and the pipeline of run_single_analysis *)

\* page.get_text() of the document's pages, joined and stripped
PdfText(content) == IF content = "report" THEN "text" ELSE ""

\* read_pdf_text without the check for empty text.
read_pdf_text_NoEmptyCheck(fs, path) ==
    IF ~HasKey(fs, path)
    THEN [state |-> "exception", value |-> "PDF file not found"]
    ELSE IF fs[path] = EmptyFile
    THEN [state |-> "exception", value |-> "Cannot open empty file"]
    ELSE [state |-> "result", value |-> PdfText(fs[path])]

\* tools.py:8-24 read_pdf_text, run in the executor thread: the future's outcome
read_pdf_text(fs, path) ==
    IF ~HasKey(fs, path)
    THEN [state |-> "exception", value |-> "PDF file not found"]
    ELSE IF fs[path] = EmptyFile
    THEN [state |-> "exception", value |-> "Cannot open empty file"]
    ELSE IF PdfText(fs[path]) = ""
    THEN [state |-> "exception",
          value |-> "No extractable text found in the provided PDF"]
    ELSE [state |-> "result", value |-> PdfText(fs[path])]

\* main.py:83-96: the rest of run_single_analysis once the text is there.
\* The two scoring tools raise only on empty text.
run_single_analysis(f) ==
    IF f.state = "exception" THEN f
    ELSE IF f.value = ""
    THEN [state |-> "exception", value |-> "Document contains no readable text."]
    ELSE [state |-> "result",
          value |-> [investment_analysis |-> "investment", risk_assessment |-> "risk"]]

-----------------------------------------------------------------------------
(* main.py:58-66 persist_analysis *)

\* What awaiting update_one can do. With mongo_db None the call returns at
\* once.  A healthy open server upserts; a flaky one may raise; a client used
\* after close() reconnects or raises, depending on the driver version.
PersistOutcomes(s) ==
    IF s.mongo_db = "None" THEN {"skip"}
    ELSE IF s.mirror_health = "healthy" /\ ~s.mongo_closed THEN {"ok"}
    ELSE {"ok", "raise"}

\* update_one({"job_id": id}, {"$set": job}, upsert=True)
Upsert(s, id) ==
    [s EXCEPT !.analyses = SetKey(@, id, s.job_store[id]),
              !.upserts[id] = Append(@, s.job_store[id]["status"])]

-----------------------------------------------------------------------------
(* main.py:99-128 worker_loop, as the code between its suspension points *)

\* datetime.now(timezone.utc).isoformat(), written over a record's earlier
\* timestamp t: a later instant. Instants are kept per record, as the ordinal
\* of the reading.
Later(t) == t + 1

\* job_queue.task_done()
task_done(s) == [s EXCEPT !.unfinished_tasks = @ - 1]

\* Pickup that reads the head of the queue without removing it.
Pickup_NoPop(s, w) ==
    LET job_id == Head(s.job_queue)
        s1 == [s EXCEPT !.deq[job_id] = @ + 1]
    IN  IF ~HasKey(s1.job_store, job_id)
        THEN [task_done(s1) EXCEPT !.pc[w] = "get", !.cur[w] = NoJob]
        ELSE LET old == s1.job_store[job_id]
                 job == SetKey(SetKey(SetKey(old,
                            "status", "processing"),
                            "worker", w),
                            "updated_at", Later(old["updated_at"]))
             IN  [s1 EXCEPT !.job_store[job_id] = job,
                            !.pc[w] = "run",
                            !.cur[w] = job_id,
                            !.fut[w] = PendingFuture]

\* Pickup that also mirrors the record once it is processing.
Pickup_Persist(s, w) ==
    LET job_id == Head(s.job_queue)
        s1 == [s EXCEPT !.job_queue = Tail(@), !.deq[job_id] = @ + 1]
    IN  IF ~HasKey(s1.job_store, job_id)
        THEN [task_done(s1) EXCEPT !.pc[w] = "get", !.cur[w] = NoJob]
        ELSE LET old == s1.job_store[job_id]
                 job == SetKey(SetKey(SetKey(old,
                            "status", "processing"),
                            "worker", w),
                            "updated_at", Later(old["updated_at"]))
                 s2 == [s1 EXCEPT !.job_store[job_id] = job,
                                  !.pc[w] = "run",
                                  !.cur[w] = job_id,
                                  !.fut[w] = PendingFuture]
             IN  IF s2.mongo_db = "None" THEN s2 ELSE Upsert(s2, job_id)

\* Pickup from a queue that serves the newest id first.
Pickup_Lifo(s, w) ==
    LET job_id == s.job_queue[Len(s.job_queue)]
        s1 == [s EXCEPT !.job_queue = SubSeq(@, 1, Len(@) - 1),
                        !.deq[job_id] = @ + 1]
    IN  IF ~HasKey(s1.job_store, job_id)
        THEN [task_done(s1) EXCEPT !.pc[w] = "get", !.cur[w] = NoJob]
        ELSE LET old == s1.job_store[job_id]
                 job == SetKey(SetKey(SetKey(old,
                            "status", "processing"),
                            "worker", w),
                            "updated_at", Later(old["updated_at"]))
             IN  [s1 EXCEPT !.job_store[job_id] = job,
                            !.pc[w] = "run",
                            !.cur[w] = job_id,
                            !.fut[w] = PendingFuture]

\* main.py:101-113: job_queue.get() has an item, so it returns without
\* yielding; the record is looked up and moved to processing, and
\* run_single_analysis hands read_data_tool to the executor and suspends.
\* An id without a record is dropped and the loop takes the next item.
RECURSIVE Pickup(_, _)
Pickup(s, w) ==
    LET job_id == Head(s.job_queue)
        s1 == [s EXCEPT !.job_queue = Tail(@), !.deq[job_id] = @ + 1]
    IN  IF ~HasKey(s1.job_store, job_id)
        THEN LET s2 == task_done(s1)
             IN  IF s2.job_queue # << >> THEN Pickup(s2, w)
                 ELSE [s2 EXCEPT !.pc[w] = "get", !.cur[w] = NoJob]
        ELSE LET old == s1.job_store[job_id]
                 job == SetKey(SetKey(SetKey(old,
                            "status", "processing"),
                            "worker", w),
                            "updated_at", Later(old["updated_at"]))
             IN  [s1 EXCEPT !.job_store[job_id] = job,
                            !.pc[w] = "run",
                            !.cur[w] = job_id,
                            !.fut[w] = PendingFuture]

\* main.py:100-101: back at the top of the loop. A non-empty queue is served
\* at once; otherwise the task suspends in job_queue.get().
LoopTop(s, w) ==
    LET s1 == [s EXCEPT !.cur[w] = NoJob, !.fut[w] = NoFuture,
                        !.pending[w] = NoException]
    IN  IF s1.job_queue # << >> THEN Pickup(s1, w)
        ELSE [s1 EXCEPT !.pc[w] = "get"]

\* The task ends with an exception nobody catches.
Die(s, w) ==
    [s EXCEPT !.pc[w] = "dead", !.cur[w] = NoJob, !.fut[w] = NoFuture,
              !.pending[w] = NoException]

\* AfterPersist in a loop that swallows the cancellation and carries on.
AfterPersist_SwallowCancel(s, w) ==
    LET job_id == s.cur[w]
        path == s.job_store[job_id]["file_path"]
        s1 == [s EXCEPT !.files = DropKey(@, path),
                        !.removed = IF HasKey(s.files, path) THEN job_id ELSE NoJob]
        s2 == task_done(s1)
    IN  LoopTop(s2, w)

\* main.py:123-128: after persist_analysis returned: remove the artifact
\* (OSError swallowed), task_done, then re-raise what the try block left
\* pending or go round the loop.
AfterPersist(s, w) ==
    LET job_id == s.cur[w]
        path == s.job_store[job_id]["file_path"]
        s1 == [s EXCEPT !.files = DropKey(@, path),
                        !.removed = IF HasKey(s.files, path) THEN job_id ELSE NoJob]
        s2 == task_done(s1)
    IN  IF s.pending[w] # NoException THEN Die(s2, w) ELSE LoopTop(s2, w)

\* main.py:119-121: the finally block up to the await of persist_analysis.
\* exc is the exception in flight (NoException on the normal paths).
Finally(s, w, exc) ==
    LET job_id == s.cur[w]
        s2 == [s EXCEPT !.job_store[job_id] =
                            SetKey(@, "updated_at", Later(@["updated_at"])),
                        !.pending[w] = exc]
    IN  IF s2.mongo_db = "None" THEN AfterPersist(s2, w)
        ELSE [s2 EXCEPT !.pc[w] = "persist"]

\* Resume with an except clause that also attaches a (null) analysis.
Resume_PartialResult(s, w) ==
    LET job_id == s.cur[w]
        out == run_single_analysis(s.fut[w])
        job == IF out.state = "result"
               THEN SetKey(SetKey(s.job_store[job_id], "status", "completed"),
                           "analysis", out.value)
               ELSE SetKey(SetKey(SetKey(s.job_store[job_id], "status", "failed"),
                           "error", out.value), "analysis", EmptyDict)
        s1 == [s EXCEPT !.job_store[job_id] = job, !.term[job_id] = @ + 1]
    IN  Finally(s1, w, NoException)

\* main.py:113-118: the executor future is delivered to the task:
\* the try block completes or the except clause records the failure.
Resume(s, w) ==
    LET job_id == s.cur[w]
        out == run_single_analysis(s.fut[w])
        job == IF out.state = "result"
               THEN SetKey(SetKey(s.job_store[job_id], "status", "completed"),
                           "analysis", out.value)
               ELSE SetKey(SetKey(s.job_store[job_id], "status", "failed"),
                           "error", out.value)
        s1 == [s EXCEPT !.job_store[job_id] = job, !.term[job_id] = @ + 1]
    IN  Finally(s1, w, NoException)

\* Cancelled with a handler that hands an interrupted job back as queued.
Cancelled_Requeue(s, w) ==
    LET s1 == [s EXCEPT !.cancel[w] = FALSE]
    IN  CASE s.pc[w] = "get" -> Die(s1, w)
          [] s.pc[w] = "run" ->
                Finally([s1 EXCEPT !.job_store[s.cur[w]] = SetKey(@, "status", "queued")],
                        w, CancelledError)
          [] s.pc[w] = "persist" -> Die(s1, w)

\* task.cancel() delivered: CancelledError is raised at the await the task is
\* suspended in. It is a BaseException, so `except Exception` lets it pass.
Cancelled(s, w) ==
    LET s1 == [s EXCEPT !.cancel[w] = FALSE]
    IN  CASE s.pc[w] = "get" -> Die(s1, w)
          [] s.pc[w] = "run" -> Finally(s1, w, CancelledError)
          [] s.pc[w] = "persist" -> Die(s1, w)

-----------------------------------------------------------------------------
(* main.py:154-186 analyze_financial_document *)

\* main.py:180-186: job_queue.put on the unbounded queue does not yield;
\* the handler returns the AnalyzeResponse.
PutAndReturn(s, r) ==
    [s EXCEPT !.job_queue = Append(@, r),
              !.unfinished_tasks = @ + 1,
              !.enq[r] = @ + 1,
              !.req[r] = "done",
              !.response = Reply("submit", 200, r, EmptyDict)]

\* Call that opens the artifact before it checks the file name.
Call_WriteFirst(s, r, name, content) ==
    LET s1 == [s EXCEPT !.nextReq = @ + 1, !.files = SetKey(@, r, EmptyFile)]
    IN  IF ~EndsWith(Lower(name), PdfSuffix)
        THEN [s1 EXCEPT !.req[r] = "done",
                        !.response = Reply("submit", 400, NoJob, EmptyDict)]
        ELSE [s1 EXCEPT !.upload[r] = content,
                        !.req[r] = "read"]

\* main.py:160-167: the filename check; then uuid4, and the artifact is opened
\* for writing while the handler awaits the upload's bytes.
Call(s, r, name, content) ==
    LET s1 == [s EXCEPT !.nextReq = @ + 1]
    IN  IF ~EndsWith(Lower(name), PdfSuffix)
        THEN [s1 EXCEPT !.req[r] = "done",
                        !.response = Reply("submit", 400, NoJob, EmptyDict)]
        ELSE [s1 EXCEPT !.files = SetKey(@, r, EmptyFile),
                        !.upload[r] = content,
                        !.req[r] = "read"]

\* Store that puts the id on the queue before awaiting persist_analysis.
Store_PutFirst(s, r) ==
    LET job == [k \in {"job_id", "status", "file_path", "created_at", "updated_at"} |->
                  CASE k = "job_id" -> r
                    [] k = "status" -> "queued"
                    [] k = "file_path" -> r
                    [] k = "created_at" -> Later(0)
                    [] k = "updated_at" -> Later(Later(0))]
        s3 == [s EXCEPT !.files = SetKey(@, r, s.upload[r]),
                        !.upload[r] = "",
                        !.job_store = SetKey(@, r, job)]
    IN  IF s3.mongo_db = "None" THEN PutAndReturn(s3, r)
        ELSE [s3 EXCEPT !.job_queue = Append(@, r),
                        !.unfinished_tasks = @ + 1,
                        !.req[r] = "persist"]

\* main.py:167-179: the bytes are written, the record is stored as queued and
\* persist_analysis is awaited.
Store(s, r) ==
    LET job == [k \in {"job_id", "status", "file_path", "created_at", "updated_at"} |->
                  CASE k = "job_id" -> r
                    [] k = "status" -> "queued"
                    [] k = "file_path" -> r
                    [] k = "created_at" -> Later(0)
                    [] k = "updated_at" -> Later(Later(0))]
        s3 == [s EXCEPT !.files = SetKey(@, r, s.upload[r]),
                         !.upload[r] = "",
                         !.job_store = SetKey(@, r, job)]
    IN  IF s3.mongo_db = "None" THEN PutAndReturn(s3, r)
        ELSE [s3 EXCEPT !.req[r] = "persist"]

\* main.py:179: update_one raised; nothing in the handler catches it, so the
\* caller gets a 500 and the lines after the await do not run.
Raise500(s, r) ==
    [s EXCEPT !.req[r] = "done",
              !.response = Reply("submit", 500, NoJob, EmptyDict)]

-----------------------------------------------------------------------------
(* main.py:189-202 get_job_status *)

\* status that stamps the record it returns.
status_Touch(s, id) ==
    IF HasKey(s.job_store, id)
    THEN LET job == SetKey(s.job_store[id], "updated_at",
                           Later(s.job_store[id]["updated_at"]))
         IN  [s EXCEPT !.job_store[id] = job,
                       !.response = Reply("status", 200, id, job)]
    ELSE [s EXCEPT !.response = Reply("status", 404, id, EmptyDict)]

status(s, id) ==
    LET job == IF HasKey(s.job_store, id) THEN s.job_store[id]
               ELSE IF s.mongo_db # "None" /\ HasKey(s.analyses, id)
               THEN s.analyses[id]
               ELSE EmptyDict
    IN  IF job = EmptyDict
        THEN [s EXCEPT !.response = Reply("status", 404, id, EmptyDict)]
        ELSE [s EXCEPT !.response = Reply("status", 200, id, job)]

-----------------------------------------------------------------------------
(* main.py:140-146 shutdown_event *)

shutdown_event(s) ==
    [s EXCEPT !.shutdown = TRUE,
              !.calls_at_shutdown = s.nextReq,
              !.cancel = [w \in Workers |-> s.pc[w] # "dead"],
              !.mongo_closed = (s.mongo_db # "None")]

-----------------------------------------------------------------------------
(* tools.py:27-105 the investment tool: label-based money extraction and the
   recommendation policy.  Texts are sequences of characters; a float is
   counted in hundredths, and Optional[float] is the empty sequence (None)
   or a sequence of one number. *)

None == << >>
Some(v) == << v >>

IsDigit(c) == c \in {"0", "1", "2", "3", "4", "5", "6", "7", "8", "9"}

\* \s of the re module, on the characters the model uses
IsSpace(c) == c \in {" ", "\n", "\t"}

\* the class [\$...] of currency signs, on the characters the model uses
IsCurrency(c) == c = "$"

IsDigitOrComma(c) == IsDigit(c) \/ c = ","

IsDot(c) == c = "."

NotDigit(c) == ~IsDigit(c)

\* The one-character items of the pattern, by the way they are written.
InClass(class, c) ==
    CASE class = "\\d" -> IsDigit(c)
      [] class = "[^\\d]" -> NotDigit(c)
      [] class = "[\\d,]" -> IsDigitOrComma(c)
      [] class = "\\s" -> IsSpace(c)
      [] class = "[\\$]" -> IsCurrency(c)
      [] class = "\\." -> IsDot(c)

\* tools.py:68  re.sub(r"\s+", " ", text)
\* Each run of white space becomes one blank: its first character is
\* replaced and the others are dropped.
NormalizeSpace(text) ==
    LET marked == [i \in 1..Len(text) |->
                      [char |-> IF IsSpace(text[i]) THEN " " ELSE text[i],
                       drop |-> IsSpace(text[i]) /\ i > 1 /\ IsSpace(text[i - 1])]]
        Kept(m) == ~m.drop
        kept == SelectSeq(marked, Kept)
    IN  [i \in 1..Len(kept) |-> kept[i].char]

\* The literal word matches at position i, letters compared as re.IGNORECASE
\* compares them.
MatchesAt(text, word, i) ==
    /\ i + Len(word) - 1 <= Len(text)
    /\ \A k \in 1..Len(word) : LowerChar(text[i + k - 1]) = LowerChar(word[k])

Min(a, b) == IF a <= b THEN a ELSE b

Largest(S) == CHOOSE x \in S : \A y \in S : y <= x

Smallest(S) == CHOOSE x \in S : \A y \in S : x <= y

\* Length of the longest run of characters of a class that starts at k.
RunLen(text, k, class) ==
    Largest({0} \cup { n \in 1..(Len(text) + 1 - k) :
                          \A j \in k..(k + n - 1) : InClass(class, text[j]) })

\* 1 if the character at k is of the class, else 0: what an optional
\* one-character item takes.
Skip(text, k, class) ==
    IF k <= Len(text) /\ InClass(class, text[k]) THEN 1 ELSE 0

NoMatch == [from |-> 0, to |-> 0]

\* The group ([\$...]?\s?[\d,]+(?:\.\d+)?) tried at position k. The optional
\* sign and the optional space are taken when they are there and given back
\* when the digits do not follow: with c the length of the sign, these are
\* the places where [\d,]+ is tried, in order.
GroupTries(text, k, c) ==
    << k + c + Skip(text, k + c, "\\s"), k + c, k + Skip(text, k, "\\s"), k >>

\* The first of the places at which [\d,]+ matches, 0 if there is none.
FirstNumber(text, tries) ==
    IF \A i \in DOMAIN tries : Skip(text, tries[i], "[\\d,]") = 0 THEN 0
    ELSE tries[Smallest({ i \in DOMAIN tries :
                             Skip(text, tries[i], "[\\d,]") = 1 })]

GroupStart(text, k) ==
    FirstNumber(text, GroupTries(text, k, Skip(text, k, "[\\$]")))

\* (?:\.\d+)? after digits that end before q: the last position of the group
FractionEnd(text, q) ==
    IF Skip(text, q, "\\.") = 1 /\ Skip(text, q + 1, "\\d") = 1
    THEN q + RunLen(text, q + 1, "\\d")
    ELSE q - 1

\* [\d,]+ and the fraction take all they can.
GroupFrom(text, k, p) ==
    IF p = 0 THEN NoMatch
    ELSE [from |-> k,
          to |-> FractionEnd(text, p + RunLen(text, p, "[\\d,]"))]

Group(text, k) == GroupFrom(text, k, GroupStart(text, k))

\* The lengths of the gap [^\d]{0,25} that starts at j after which the
\* group matches.
Gaps(text, j) ==
    { g \in 0..Min(25, RunLen(text, j, "[^\\d]")) : GroupStart(text, j + g) # 0 }

\* The gap is greedy: the longest gap after which the group matches wins.
GapMatch(text, j, gaps) ==
    IF gaps = {} THEN NoMatch ELSE Group(text, j + Largest(gaps))

\* The pattern label[^\d]{0,25}(group) tried with the label at position i
MatchFrom(text, label, i) ==
    IF ~MatchesAt(text, label, i) THEN NoMatch
    ELSE GapMatch(text, i + Len(label), Gaps(text, i + Len(label)))

Leftmost(text, label, starts) ==
    IF starts = {} THEN NoMatch ELSE MatchFrom(text, label, Smallest(starts))

\* re.search: the leftmost position at which the pattern matches
re_search(text, label) ==
    Leftmost(text, label,
             { i \in 1..Len(text) :
                  MatchesAt(text, label, i) /\ Gaps(text, i + Len(label)) # {} })

Digits == << "0", "1", "2", "3", "4", "5", "6", "7", "8", "9" >>

DigitValue(c) == (CHOOSE i \in DOMAIN Digits : Digits[i] = c) - 1

RECURSIVE ToNat(_)
ToNat(ds) ==
    IF ds = << >> THEN 0
    ELSE ToNat(SubSeq(ds, 1, Len(ds) - 1)) * 10 + DigitValue(ds[Len(ds)])

IsDigitOrDot(c) == IsDigit(c) \/ c = "."

\* The number with the given digits before and after the point, in
\* hundredths. The amounts of the documents considered have at most two
\* decimals.
Hundredths(whole, frac) ==
    IF Len(whole) + Len(frac) = 0 THEN None
    ELSE Some(ToNat(whole) * 100 + ToNat(SubSeq(frac \o << "0", "0" >>, 1, 2)))

SplitAt(cleaned, dot) ==
    Hundredths(SubSeq(cleaned, 1, dot - 1), SubSeq(cleaned, dot + 1, Len(cleaned)))

\* tools.py:37-40  float(cleaned); ValueError gives None
ParseFloat(cleaned) ==
    IF Cardinality({ i \in DOMAIN cleaned : cleaned[i] = "." }) > 1 THEN None
    ELSE SplitAt(cleaned, Smallest({ i \in DOMAIN cleaned : cleaned[i] = "." }
                                   \cup {Len(cleaned) + 1}))

\* tools.py:32-40: None without a match, else the float of what is left of
\* group(1) without the characters that are neither digits nor points
FloatOf(text, match) ==
    IF match = NoMatch THEN None
    ELSE ParseFloat(SelectSeq(SubSeq(text, match.from, match.to), IsDigitOrDot))

\* tools.py:27-40 _extract_money_metric
_extract_money_metric(text, label) == FloatOf(text, re_search(text, label))

\* The recommendation for profitable companies whatever their debt.
recommend_IgnoreDebt(revenue, net_income, debt) ==
    IF revenue # None /\ net_income # None
    THEN IF net_income[1] > 0
         THEN [recommendation |-> "BUY",
               rationale |-> "Company is profitable with no detected debt."]
         ELSE IF net_income[1] < 0
         THEN [recommendation |-> "CAUTIOUS",
               rationale |-> "Negative net income increases downside risk."]
         ELSE [recommendation |-> "HOLD",
               rationale |-> "Insufficient financial metrics for strong conviction."]
    ELSE [recommendation |-> "HOLD",
          rationale |-> "Insufficient financial metrics for strong conviction."]

\* tools.py:75-93 the recommendation policy. net_income > debt * 0.05 is
\* written net_income * 20 > debt, in whole numbers.
recommend(revenue, net_income, debt) ==
    IF revenue # None /\ net_income # None
    THEN IF net_income[1] > 0
         THEN IF debt = None
              THEN [recommendation |-> "BUY",
                    rationale |-> "Company is profitable with no detected debt."]
              ELSE IF net_income[1] * 20 > debt[1]
              THEN [recommendation |-> "BUY",
                    rationale |-> "Positive profitability and manageable leverage."]
              ELSE [recommendation |-> "HOLD",
                    rationale |-> "Profitable but debt level requires monitoring."]
         ELSE IF net_income[1] < 0
         THEN [recommendation |-> "CAUTIOUS",
               rationale |-> "Negative net income increases downside risk."]
         ELSE [recommendation |-> "HOLD",
               rationale |-> "Insufficient financial metrics for strong conviction."]
    ELSE [recommendation |-> "HOLD",
          rationale |-> "Insufficient financial metrics for strong conviction."]

NoMetrics == [revenue |-> None, net_income |-> None, cash |-> None, debt |-> None]

\* What a tool that has not been called has returned.
NoOutput ==
    [ tool |-> "none", raised |-> "none", metrics |-> NoMetrics,
      recommendation |-> "", rationale |-> "",
      detected_risks |-> << >>, risk_count |-> 0, overall_risk_level |-> "" ]

\* tools.py:95-105 the dict returned
Report(revenue, net_income, cash, debt, policy) ==
    [NoOutput EXCEPT
        !.tool = "investment",
        !.metrics = [revenue |-> revenue, net_income |-> net_income,
                     cash |-> cash, debt |-> debt],
        !.recommendation = policy.recommendation,
        !.rationale = policy.rationale]

\* tools.py:75-105
Decide(revenue, net_income, cash, debt) ==
    Report(revenue, net_income, cash, debt, recommend(revenue, net_income, debt))

\* tools.py:70-73
Extract(normalized_text) ==
    Decide(_extract_money_metric(normalized_text, << "r", "e", "v", "e", "n", "u", "e" >>),
           _extract_money_metric(normalized_text,
               << "n", "e", "t", " ", "i", "n", "c", "o", "m", "e" >>),
           _extract_money_metric(normalized_text, << "c", "a", "s", "h" >>),
           _extract_money_metric(normalized_text, << "d", "e", "b", "t" >>))

\* tools.py:59-105 InvestmentTool.analyze_investment_tool (the query is
\* copied into the result and plays no part)
analyze_investment_tool(text) ==
    IF text = << >>
    THEN [NoOutput EXCEPT !.tool = "investment", !.raised = "ValueError"]
    ELSE Extract(NormalizeSpace(text))

-----------------------------------------------------------------------------
(* tools.py:108-150 the risk tool *)

\* tools.py:124-131 risk_keywords, in the order of the dict
risk_keywords ==
    << [keyword |-> << "s", "u", "p", "p", "l", "y", " ", "c", "h", "a", "i", "n" >>,
        message |-> "Supply-chain exposure mentioned."],
       [keyword |-> << "r", "e", "g", "u", "l", "a", "t", "o", "r", "y" >>,
        message |-> "Regulatory risk discussed."],
       [keyword |-> << "l", "i", "t", "i", "g", "a", "t", "i", "o", "n" >>,
        message |-> "Legal/litigation risk detected."],
       [keyword |-> << "v", "o", "l", "a", "t", "i", "l", "i", "t", "y" >>,
        message |-> "Market volatility highlighted."],
       [keyword |-> << "i", "n", "f", "l", "a", "t", "i", "o", "n" >>,
        message |-> "Inflationary pressure referenced."],
       [keyword |-> << "r", "e", "c", "e", "s", "s", "i", "o", "n" >>,
        message |-> "Recession-related concern detected."] >>

\* The positions at which the word occurs in the text, character by character.
Occurrences(text, word) ==
    { i \in 1..Len(text) :
         /\ i + Len(word) - 1 <= Len(text)
         /\ SubSeq(text, i, i + Len(word) - 1) = word }

\* keyword in lowered
Contains(text, word) == Occurrences(text, word) # {}

risk_level(n) == IF n >= 4 THEN "HIGH" ELSE IF n >= 2 THEN "MEDIUM" ELSE "LOW"

RECURSIVE Repeat(_, _)
Repeat(s, n) == IF n = 0 THEN << >> ELSE s \o Repeat(s, n - 1)

RECURSIVE Flatten(_)
Flatten(ss) == IF ss = << >> THEN << >> ELSE Head(ss) \o Flatten(Tail(ss))

\* A risk tool that appends the message at every occurrence of the keyword.
create_risk_assessment_tool_EveryMention(text) ==
    IF text = << >>
    THEN [NoOutput EXCEPT !.tool = "risk", !.raised = "ValueError"]
    ELSE LET lowered == Lower(text)
             detected_risks ==
                 Flatten([i \in DOMAIN risk_keywords |->
                     Repeat(<< risk_keywords[i].message >>,
                            Cardinality(Occurrences(lowered,
                                                    risk_keywords[i].keyword)))])
         IN  [NoOutput EXCEPT
                 !.tool = "risk",
                 !.detected_risks = detected_risks,
                 !.risk_count = Len(detected_risks),
                 !.overall_risk_level = risk_level(Len(detected_risks))]

\* tools.py:113-150 RiskTool.create_risk_assessment_tool
create_risk_assessment_tool(text) ==
    IF text = << >>
    THEN [NoOutput EXCEPT !.tool = "risk", !.raised = "ValueError"]
    ELSE LET lowered == Lower(text)
             Found(entry) == Contains(lowered, entry.keyword)
             found == SelectSeq(risk_keywords, Found)
             detected_risks == [i \in DOMAIN found |-> found[i].message]
         IN  [NoOutput EXCEPT
                 !.tool = "risk",
                 !.detected_risks = detected_risks,
                 !.risk_count = Len(detected_risks),
                 !.overall_risk_level = risk_level(Len(detected_risks))]

-----------------------------------------------------------------------------
(* The arguments the scoring tools are exercised with: metric triples for the
   policy of tools.py:75-93, and document texts for the two tools.  A text
   is written from what it states, so that what a tool finds can be
   compared with what the document says. *)

\* How often a document may mention one risk category.
MaxRepeat == 2

Categories == DOMAIN risk_keywords

NoStated == [revenue |-> None, net_income |-> None, debt |-> None]
NoMentions == [c \in Categories |-> 0]

NoInput == [kind |-> "none", text |-> << >>, stated |-> NoStated,
            mentions |-> NoMentions]

Optional(S) == {None} \cup { Some(v) : v \in S }

\* Amounts the policy is evaluated on.
MetricValues == {-50000, 0, 10000, 20000, 200000, 400000, 500000, 1000000}

PolicyInputs ==
    { [NoInput EXCEPT !.kind = "metrics",
                      !.stated = [revenue |-> r, net_income |-> n, debt |-> d]] :
        r \in Optional({500000, 1000000}),
        n \in Optional(MetricValues),
        d \in Optional(MetricValues \ {-50000}) }

\* Lines of a financial statement, each with the amount in dollars it states.
RevenueLines ==
    { [stated |-> None, line |-> << >>],
      [stated |-> Some(1000000),
       line |-> << "R", "e", "v", "e", "n", "u", "e", ":", " ", "$", "1", ",", "0",
           "0", "0", ",", "0", "0", "0" >>],
      [stated |-> Some(500000),
       line |-> << "T", "o", "t", "a", "l", " ", "r", "e", "v", "e", "n", "u", "e",
           " ", "w", "a", "s", " ", "$", "5", "0", "0", ",", "0", "0", "0",
           ".", "0", "0" >>] }

NetIncomeLines ==
    { [stated |-> None, line |-> << >>],
      [stated |-> Some(200000),
       line |-> << "N", "e", "t", " ", "I", "n", "c", "o", "m", "e", ":", " ", "$",
           "2", "0", "0", ",", "0", "0", "0" >>],
      [stated |-> Some(10000),
       line |-> << "N", "e", "t", "\n", "i", "n", "c", "o", "m", "e", " ", "$", " ",
           "1", "0", ",", "0", "0", "0" >>],
      [stated |-> Some(-50000),
       line |-> << "N", "e", "t", " ", "I", "n", "c", "o", "m", "e", ":", " ", "-",
           "$", "5", "0", ",", "0", "0", "0" >>],
      [stated |-> Some(-50000),
       line |-> << "N", "E", "T", " ", "I", "N", "C", "O", "M", "E", " ", "(", "$",
           "5", "0", ",", "0", "0", "0", ".", "0", "0", ")" >>] }

DebtLines ==
    { [stated |-> None, line |-> << >>],
      [stated |-> Some(400000),
       line |-> << "D", "e", "b", "t", ":", " ", "$", "4", "0", "0", ",", "0", "0",
           "0" >>],
      [stated |-> Some(200000),
       line |-> << "L", "o", "n", "g", "-", "t", "e", "r", "m", " ", "d", "e", "b",
           "t", "\t", "$", "2", "0", "0", ",", "0", "0", "0" >>] }

\* The lines that are there, each on a line of its own.
RECURSIVE JoinLines(_)
JoinLines(lines) ==
    IF lines = << >> THEN << >>
    ELSE IF Head(lines) = << >> THEN JoinLines(Tail(lines))
    ELSE IF JoinLines(Tail(lines)) = << >> THEN Head(lines)
    ELSE Head(lines) \o << "\n" >> \o JoinLines(Tail(lines))

FinancialStatements ==
    { [NoInput EXCEPT
          !.kind = "document",
          !.text = JoinLines(<< r.line, n.line, d.line >>),
          !.stated = [revenue |-> r.stated, net_income |-> n.stated,
                      debt |-> d.stated]] :
        r \in RevenueLines, n \in NetIncomeLines, d \in DebtLines }

UpperChar(c) ==
    IF \E i \in DOMAIN LowerLetters : LowerLetters[i] = c
    THEN UpperLetters[CHOOSE i \in DOMAIN LowerLetters : LowerLetters[i] = c]
    ELSE c

Upper(s) == [i \in 1..Len(s) |-> UpperChar(s[i])]

\* A risk section that mentions category c mentions[c] times, in lower case
\* or in capitals.
RiskText(mentions, style) ==
    << "R", "i", "s", "k", " ", "f", "a", "c", "t", "o", "r", "s", ":" >> \o
    Flatten([c \in Categories |->
        Repeat(<< " " >> \o (IF style = "upper"
                            THEN Upper(risk_keywords[c].keyword)
                            ELSE risk_keywords[c].keyword) \o << "." >>,
               mentions[c])])

RiskSections ==
    { [NoInput EXCEPT !.kind = "document",
                      !.text = RiskText(m, style),
                      !.mentions = m] :
        m \in [Categories -> 0..MaxRepeat], style \in {"lower", "upper"} }

ToolInputs == PolicyInputs \cup FinancialStatements \cup RiskSections

-----------------------------------------------------------------------------
(* The state after startup_event (main.py:131-137): init_db has run and the
   worker tasks wait in job_queue.get() on the empty queue. *)

ServiceInit ==
    /\ job_store = EmptyDict
    /\ job_queue = << >>
    /\ unfinished_tasks = 0
    /\ files = EmptyDict
    /\ mongo_db \in {"None", "db"}
    /\ mirror_health \in (IF mongo_db = "None" THEN {"healthy"} ELSE {"healthy", "flaky"})
    /\ mongo_closed = FALSE
    /\ analyses = EmptyDict
    /\ upserts = [id \in JobIds |-> << >>]
    /\ pc = [w \in Workers |-> "get"]
    /\ cur = [w \in Workers |-> NoJob]
    /\ fut = [w \in Workers |-> NoFuture]
    /\ pending = [w \in Workers |-> NoException]
    /\ cancel = [w \in Workers |-> FALSE]
    /\ req = [r \in JobIds |-> "idle"]
    /\ upload = [r \in JobIds |-> ""]
    /\ nextReq = 1
    /\ shutdown = FALSE
    /\ calls_at_shutdown = 0
    /\ response = NoResponse
    /\ removed = NoJob
    /\ enq = [id \in JobIds |-> 0]
    /\ deq = [id \in JobIds |-> 0]
    /\ term = [id \in JobIds |-> 0]

\* The job subsystem after startup; no scoring tool is being exercised.
Init ==
    /\ ServiceInit
    /\ tool_in = NoInput
    /\ tool_out = NoOutput

\* The state at the start of a step: the previous step's response is gone.
Cur == [State EXCEPT !.response = NoResponse, !.removed = NoJob]

-----------------------------------------------------------------------------
(* Actions *)

\* POST /analyze arrives.
SubmitCall(r) ==
    /\ r = nextReq
    /\ r <= MaxJobs
    /\ \E name \in Filenames, content \in Uploads :
          Becomes(Call(Cur, r, name, content))

\* file.read() returned.
SubmitStore(r) ==
    /\ req[r] = "read"
    /\ Becomes(Store(Cur, r))

\* persist_analysis returned to the handler, or raised.
SubmitPersisted(r) ==
    /\ req[r] = "persist"
    /\ \E o \in PersistOutcomes(Cur) :
          IF o = "raise" THEN Becomes(Raise500(Cur, r))
          ELSE Becomes(PutAndReturn(Upsert(Cur, r), r))

\* A worker waiting in job_queue.get() is woken with an item.
WorkerGet(w) ==
    /\ pc[w] = "get"
    /\ ~cancel[w]
    /\ job_queue # << >>
    /\ Becomes(Pickup(Cur, w))

\* The executor thread runs read_data_tool and sets the future.
ExecutorRead(w) ==
    /\ pc[w] = "run"
    /\ ~cancel[w]
    /\ fut[w].state = "pending"
    /\ Becomes([Cur EXCEPT !.fut[w] =
                   read_pdf_text(files, job_store[cur[w]]["file_path"])])

\* The worker task resumes with the future's outcome.
WorkerResume(w) ==
    /\ pc[w] = "run"
    /\ ~cancel[w]
    /\ fut[w].state \in {"result", "exception"}
    /\ Becomes(Resume(Cur, w))

\* persist_analysis returned to the worker, or raised out of the finally block.
WorkerPersisted(w) ==
    /\ pc[w] = "persist"
    /\ ~cancel[w]
    /\ \E o \in PersistOutcomes(Cur) :
          IF o = "raise" THEN Becomes(Die(Cur, w))
          ELSE Becomes(AfterPersist(Upsert(Cur, cur[w]), w))

\* The event loop steps a task that was cancelled.
WorkerCancelled(w) ==
    /\ cancel[w]
    /\ Becomes(Cancelled(Cur, w))

\* GET /jobs/{job_id}
GetJobStatus(id) ==
    Becomes(status(Cur, id))

\* The application shuts down.
Shutdown ==
    /\ ~shutdown
    /\ Becomes(shutdown_event(Cur))

\* Something outside the program removes a file from DATA_DIR. Only the
\* worker that holds the job ever looks at the file, and only twice: when the
\* executor reads it and at os.remove. A loss is therefore modelled right
\* before the read, or after the read and before os.remove; a loss at any
\* other moment shows the same way.
ArtifactLost(path) ==
    /\ HasKey(files, path)
    /\ \E w \in Workers :
          /\ cur[w] = path
          /\ \/ fut[w].state = "pending"
             \/ pc[w] = "persist"
             \/ pc[w] = "run" /\ mongo_db = "None"
    /\ Becomes([Cur EXCEPT !.files = DropKey(@, path)])

Next ==
    \/ \E r \in JobIds : SubmitCall(r)
    \/ \E r \in JobIds : SubmitStore(r)
    \/ \E r \in JobIds : SubmitPersisted(r)
    \/ \E w \in Workers : WorkerGet(w)
    \/ \E w \in Workers : ExecutorRead(w)
    \/ \E w \in Workers : WorkerResume(w)
    \/ \E w \in Workers : WorkerPersisted(w)
    \/ \E w \in Workers : WorkerCancelled(w)
    \/ \E id \in JobIds : GetJobStatus(id)
    \/ Shutdown
    \/ \E path \in JobIds : ArtifactLost(path)

Spec == Init /\ [][Next]_vars

-----------------------------------------------------------------------------
(* The scoring tools, exercised one call at a time on every argument of
   ToolInputs; the job subsystem stays as it was at startup. *)

ToolInit ==
    /\ ServiceInit
    /\ mongo_db = "None"
    /\ tool_in \in ToolInputs
    /\ tool_out = NoOutput

\* tools.py:75-93 on a triple of metrics
Recommend ==
    /\ tool_in.kind = "metrics"
    /\ tool_out.tool = "none"
    /\ LET policy == recommend(tool_in.stated.revenue,
                               tool_in.stated.net_income,
                               tool_in.stated.debt)
       IN  tool_out' = [NoOutput EXCEPT
                           !.tool = "policy",
                           !.recommendation = policy.recommendation,
                           !.rationale = policy.rationale]
    /\ UNCHANGED << service_vars, tool_in >>

\* main.py:86-89 the investment tool on the text of a document
AnalyzeInvestment ==
    /\ tool_in.kind = "document"
    /\ tool_out.tool = "none"
    /\ tool_out' = analyze_investment_tool(tool_in.text)
    /\ UNCHANGED << service_vars, tool_in >>

\* main.py:91 the risk tool on the text of a document
AssessRisk ==
    /\ tool_in.kind = "document"
    /\ tool_out.tool = "none"
    /\ tool_out' = create_risk_assessment_tool(tool_in.text)
    /\ UNCHANGED << service_vars, tool_in >>

ToolNext ==
    \/ Recommend
    \/ AnalyzeInvestment
    \/ AssessRisk

ToolSpec == ToolInit /\ [][ToolNext]_vars

\* The event loop runs every task that is ready, the executor finishes the
\* read it was given, and an awaited driver call returns or raises; requests,
\* status queries, shutdown and file losses are up to the environment.
FairSpec ==
    /\ Spec
    /\ \A w \in Workers :
          /\ WF_vars(WorkerGet(w))
          /\ WF_vars(ExecutorRead(w))
          /\ WF_vars(WorkerResume(w))
          /\ WF_vars(WorkerPersisted(w))
          /\ WF_vars(WorkerCancelled(w))
    /\ \A r \in JobIds :
          /\ WF_vars(SubmitStore(r))
          /\ WF_vars(SubmitPersisted(r))

-----------------------------------------------------------------------------
(* Vocabulary of the properties *)

Stored(id) == HasKey(job_store, id)

StatusOf(id) == job_store[id]["status"]

Terminal(id) == Stored(id) /\ StatusOf(id) \in {"completed", "failed"}

\* Some worker task has the id in hand.
Held(id) == \E w \in Workers : cur[w] = id

RECURSIVE SumOver(_, _)
SumOver(f, S) ==
    IF S = {} THEN 0
    ELSE LET x == CHOOSE y \in S : TRUE IN f[x] + SumOver(f, S \ {x})

AllowedStatusSteps ==
    { <<"queued", "processing">>, <<"processing", "completed">>,
      <<"processing", "failed">> }

\* A healthy mirror is configured and open.
HealthyMirror == mongo_db = "db" /\ mirror_health = "healthy" /\ ~mongo_closed

-----------------------------------------------------------------------------
(* Properties *)

\* C1: under fair scheduling and as long as shutdown has not been requested,
\* every job record created by submit eventually is completed or failed.
C1_EveryJobEnds ==
    \A id \in JobIds : [](Stored(id) => <>(Terminal(id) \/ shutdown))

\* C2: a completed record has an analysis and no error, a failed record has an
\* error and no analysis, a queued or processing record has neither.
C2_ResultXorError ==
    \A id \in DOMAIN job_store :
        LET job == job_store[id]
        IN  /\ job["status"] \in {"queued", "processing", "completed", "failed"}
            /\ job["status"] = "completed" =>
                  HasKey(job, "analysis") /\ ~HasKey(job, "error")
            /\ job["status"] = "failed" =>
                  HasKey(job, "error") /\ ~HasKey(job, "analysis")
            /\ job["status"] \in {"queued", "processing"} =>
                  ~HasKey(job, "analysis") /\ ~HasKey(job, "error")

\* One job completed and another failed.
C2_Witness ==
    \E a, b \in DOMAIN job_store :
        StatusOf(a) = "completed" /\ StatusOf(b) = "failed"

\* C3: every id is put on the queue at most once, dequeued at most once, held
\* by at most one worker at a time, and moved out of processing at most once:
\* exactly once when a worker has finished handling it (it was dequeued, no
\* worker holds it and no shutdown interrupted it); the number of terminal
\* transitions equals the number of distinct ids in a terminal state.
C3_AtMostOnce ==
    /\ \A id \in JobIds :
          /\ enq[id] <= 1
          /\ deq[id] <= enq[id]
          /\ term[id] <= deq[id]
          /\ Cardinality({w \in Workers : cur[w] = id}) <= 1
          /\ (term[id] = 1) <=> Terminal(id)
          /\ (deq[id] = 1 /\ ~Held(id) /\ ~shutdown) => term[id] = 1
    /\ SumOver(term, JobIds) = Cardinality({id \in JobIds : Terminal(id)})

\* Both workers are processing, each its own job, and then both jobs are done.
C3_Witness ==
    /\ \A id \in JobIds : deq[id] = 1 /\ term[id] = 1 /\ ~Held(id)
    /\ \E a, b \in JobIds : a # b /\ job_store[a]["worker"] # job_store[b]["worker"]

\* C4: every step that changes a record's status is queued->processing,
\* processing->completed or processing->failed; no step changes the status of
\* a completed or failed record, and no record leaves the store.
C4_StatusOrder ==
    [][ \A id \in DOMAIN job_store :
           /\ id \in DOMAIN job_store'
           /\ job_store'[id]["status"] # job_store[id]["status"] =>
                 << job_store[id]["status"], job_store'[id]["status"] >>
                    \in AllowedStatusSteps ]_vars

\* One job has failed while the other, picked up after it, is processing.
C4_Witness ==
    \E a, b \in DOMAIN job_store :
        StatusOf(a) = "failed" /\ StatusOf(b) = "processing"

\* C5: once a worker has finished handling a job (the record is completed or
\* failed and no worker holds it), no step changes any field of the record;
\* a status query never changes the job store and returns the stored record.
C5_TerminalFrozen ==
    [][ /\ \A id \in DOMAIN job_store :
              (Terminal(id) /\ ~Held(id)) =>
                  id \in DOMAIN job_store' /\ job_store'[id] = job_store[id]
        /\ response'.op = "status" =>
              /\ job_store' = job_store
              /\ response'.code = 200 =>
                    response'.job = job_store[response'.job_id] ]_vars

\* A status query has just returned a finished job's record.
C5_Witness ==
    /\ response.op = "status"
    /\ response.code = 200
    /\ Terminal(response.job_id)
    /\ ~Held(response.job_id)
    /\ response.job = job_store[response.job_id]

\* C6: once a job is completed or failed and its worker has moved on, the
\* artifact at its file_path no longer exists.
C6_Cleanup ==
    \A id \in DOMAIN job_store :
        (Terminal(id) /\ ~Held(id)) => ~HasKey(files, job_store[id]["file_path"])

\* C7: a persist failure in a worker's terminal transition does not affect the
\* worker: before shutdown no worker task has ended, every finished job's
\* artifact is deleted and every dequeued item that is not in hand is marked
\* done.
C7_PersistNotFatal ==
    ~shutdown =>
        /\ \A w \in Workers : pc[w] # "dead"
        /\ \A id \in DOMAIN job_store :
              (Terminal(id) /\ ~Held(id)) =>
                  ~HasKey(files, job_store[id]["file_path"])
        /\ unfinished_tasks =
              Len(job_queue) + Cardinality({w \in Workers : cur[w] # NoJob})

\* C8: whenever submit has stored a queued record and is over, the id was put
\* on the admission queue, and submit never answers with a server error.
C8_SubmitAdmits ==
    /\ \A r \in JobIds : (req[r] = "done" /\ Stored(r)) => enq[r] = 1
    /\ response.op = "submit" => response.code \in {200, 400}

C10_NoAdmissionAfterShutdown ==
    \A r \in JobIds :
        (shutdown /\ r >= calls_at_shutdown) => ~Stored(r) /\ enq[r] = 0

\* C11: after shutdown has been requested no worker dequeues another job id
\* and no record moves from queued to processing: the ids in the admission
\* queue stay there, in place, and their records stay queued.
C11_NoPickupAfterShutdown ==
    [][ shutdown =>
          /\ deq' = deq
          /\ Len(job_queue') >= Len(job_queue)
          /\ SubSeq(job_queue', 1, Len(job_queue)) = job_queue
          /\ \A id \in DOMAIN job_store :
                StatusOf(id) = "queued" =>
                    id \in DOMAIN job_store' /\ job_store'[id]["status"] = "queued" ]_vars

\* Shutdown found a worker in the middle of a run and an id waiting in the
\* queue; the worker has ended and the id is still there, its record queued.
C11_Witness ==
    /\ shutdown
    /\ \A w \in Workers : pc[w] = "dead"
    /\ \E id \in JobIds :
          /\ id < calls_at_shutdown
          /\ job_queue = << id >>
          /\ StatusOf(id) = "queued"
    /\ \E id \in DOMAIN job_store : StatusOf(id) = "processing"

\* C12: when submit returns a job id the store holds its record as queued,
\* without worker, analysis or error, and the id is on the admission queue;
\* no worker takes an id or moves its record to processing before its submit
\* has returned.
C12_QueuedOnReturn ==
    /\ (response.op = "submit" /\ response.code = 200) =>
          /\ Stored(response.job_id)
          /\ DOMAIN job_store[response.job_id] =
                {"job_id", "status", "file_path", "created_at", "updated_at"}
          /\ StatusOf(response.job_id) = "queued"
          /\ \E i \in 1..Len(job_queue) : job_queue[i] = response.job_id
    /\ \A r \in JobIds :
          (Stored(r) /\ req[r] # "done") => StatusOf(r) = "queued" /\ deq[r] = 0

\* Submit has just returned the id of a job while a worker sits idle.
C12_Witness ==
    /\ response.op = "submit"
    /\ response.code = 200
    /\ StatusOf(response.job_id) = "queued"
    /\ \E w \in Workers : pc[w] = "get"
    /\ mongo_db = "db"

\* The parts of the state a submission can leave a trace in.
SubmitFootprint(s) ==
    << s.job_store, s.job_queue, s.unfinished_tasks, s.files, s.analyses,
       s.upserts, s.enq, s.pc, s.cur >>

\* C13: a submission whose file name does not end in .pdf is rejected in the
\* step of the call (400) and leaves the system unchanged: no record, nothing
\* on the queue, nothing sent to the mirror, no artifact. Wherever a call is
\* made, each file name it could have carried is rejected if and only if it
\* does not end in .pdf, whatever its case.
C13_RejectedLeavesNoTrace ==
    [][ /\ (response'.op = "submit" /\ response'.code = 400) =>
              /\ SubmitFootprint(State') = SubmitFootprint(State)
              /\ nextReq \notin DOMAIN job_store'
              /\ req'[nextReq] = "done"
        /\ nextReq' # nextReq =>
              \A name \in Filenames, content \in Uploads :
                  LET n == Call(Cur, nextReq, name, content)
                      pdf == /\ Len(name) >= 4
                             /\ name[Len(name) - 3] = "."
                             /\ name[Len(name) - 2] \in {"p", "P"}
                             /\ name[Len(name) - 1] \in {"d", "D"}
                             /\ name[Len(name)] \in {"f", "F"}
                  IN  IF pdf
                      THEN n.response = NoResponse /\ n.req[nextReq] = "read"
                      ELSE /\ n.response = Reply("submit", 400, NoJob, EmptyDict)
                           /\ SubmitFootprint(n) = SubmitFootprint(State) ]_vars

\* A submission has just been rejected while an earlier job is in the store.
C13_Witness ==
    /\ response.op = "submit"
    /\ response.code = 400
    /\ job_store # EmptyDict
    /\ \E r \in JobIds : req[r] = "done" /\ ~Stored(r)

\* C14: a job whose extraction fails (artifact missing when the executor
\* reads it, or no extractable text) ends failed with the extraction error's
\* message and never completed; a job is completed only with the extracted
\* text and both analyses.
C14_ExtractionFailureFails ==
    [][ \A w \in Workers :
          /\ (pc[w] = "run" /\ fut[w].state = "pending" /\ fut'[w].state # "pending"
                /\ pc'[w] = "run" /\ fut'[w].state # "none") =>
                LET path == job_store[cur[w]]["file_path"]
                IN  /\ ~HasKey(files, path) =>
                          fut'[w] = [state |-> "exception", value |-> "PDF file not found"]
                    /\ (HasKey(files, path) /\ files[path] = "blank") =>
                          fut'[w] = [state |-> "exception", value |->
                                       "No extractable text found in the provided PDF"]
                    /\ fut'[w].state = "result" =>
                          HasKey(files, path) /\ files[path] = "report"
          /\ (cur[w] # NoJob /\ StatusOf(cur[w]) = "processing"
                /\ job_store'[cur[w]]["status"] # "processing") =>
                LET job == job_store'[cur[w]]
                IN  /\ fut[w].state \in {"exception", "result"}
                    /\ fut[w].state = "exception" =>
                          /\ job["status"] = "failed"
                          /\ job["error"] = fut[w].value
                    /\ job["status"] = "completed" =>
                          /\ fut[w].state = "result"
                          /\ fut[w].value # ""
                          /\ DOMAIN job["analysis"] =
                                {"investment_analysis", "risk_assessment"} ]_vars

\* One job failed because its artifact was missing, another because its PDF
\* had no text.
C14_Witness ==
    \E a, b \in DOMAIN job_store :
        /\ StatusOf(a) = "failed" /\ job_store[a]["error"] = "PDF file not found"
        /\ StatusOf(b) = "failed"
        /\ job_store[b]["error"] = "No extractable text found in the provided PDF"

\* C15: a job's pipeline failure is never fatal to the pool: before shutdown,
\* once some job has ended failed, every one of the W worker tasks is still
\* alive, and the worker that handled the failed job is back in its loop.
C15_FailureNotFatal ==
    (~shutdown /\ \E id \in DOMAIN job_store : StatusOf(id) = "failed") =>
        /\ Cardinality({w \in Workers : pc[w] # "dead"}) = WORKER_CONCURRENCY
        /\ \A id \in DOMAIN job_store :
              (StatusOf(id) = "failed" /\ ~Held(id)) =>
                  pc[job_store[id]["worker"]] \in {"get", "run", "persist"}

\* Vocabulary of the tool properties: the metrics handed to the policy, and
\* whether revenue and net income are both determined.
PolicyCalled == tool_out.tool = "policy"
BothDetermined ==
    tool_in.stated.revenue # None /\ tool_in.stated.net_income # None
NetIncomeSign ==
    IF tool_in.stated.net_income = None THEN "undetermined"
    ELSE IF tool_in.stated.net_income[1] > 0 THEN "positive"
    ELSE IF tool_in.stated.net_income[1] < 0 THEN "negative"
    ELSE "zero"
\* net income exceeds 5% of the debt, in whole numbers
ExceedsDebtShare ==
    tool_in.stated.net_income[1] * 20 > tool_in.stated.debt[1]

C17_NegativeNetIncomeCautious ==
    (/\ tool_out.tool = "investment"
     /\ tool_in.kind = "document"
     /\ NetIncomeSign = "negative")
        => tool_out.recommendation = "CAUTIOUS"

\* C18: the risk tool counts the categories the text mentions, each once
\* however often it is mentioned and in whatever case, reports them in the
\* order of the table, and grades the count: HIGH from 4, MEDIUM for 2 and
\* 3, LOW for 0 and 1.
C18_RiskPolicy ==
    (tool_out.tool = "risk" /\ tool_in.text # << >>) =>
        LET present == { c \in Categories : tool_in.mentions[c] > 0 }
            n == tool_out.risk_count
        IN  /\ tool_out.raised = "none"
            /\ n = Cardinality(present)
            /\ n \in 0..6
            /\ Len(tool_out.detected_risks) = n
            /\ \A c \in Categories :
                  (c \in present) <=>
                      \E i \in 1..n :
                          tool_out.detected_risks[i] = risk_keywords[c].message
            /\ \A i, j \in 1..n :
                  i < j => \E c, d \in Categories :
                              /\ c < d
                              /\ tool_out.detected_risks[i] = risk_keywords[c].message
                              /\ tool_out.detected_risks[j] = risk_keywords[d].message
            /\ tool_out.overall_risk_level =
                  (IF n >= 4 THEN "HIGH" ELSE IF n >= 2 THEN "MEDIUM" ELSE "LOW")

\* Four categories in capitals, one of them mentioned more than once: HIGH
\* with a count of four.
C18_Witness ==
    /\ tool_out.tool = "risk"
    /\ tool_in.text # Lower(tool_in.text)
    /\ Cardinality({ c \in Categories : tool_in.mentions[c] > 0 }) = 4
    /\ \E c \in Categories : tool_in.mentions[c] >= 2
    /\ tool_out.risk_count = 4
    /\ tool_out.overall_risk_level = "HIGH"

\* C19: a job that is queued or processing still has its artifact: whenever
\* os.remove has just deleted an artifact, its job is completed or failed.
C19_RemovedOnlyWhenTerminal ==
    removed # NoJob => Terminal(removed)

\* C20: admission is first in, first out. The queue holds exactly the ids
\* that were put and not yet taken, in the order of the puts, all of them
\* queued; it changes only by a put at the tail or a get at the head; and an
\* id is taken in the very step in which its record moves from queued to
\* processing, which is the step that removes it from the head. So of two
\* ids the one put first becomes processing first. Nothing orders the
\* terminal transitions of different ids.
C20_FifoAdmission ==
    [][ /\ \A i \in 1..Len(job_queue) :
              /\ Stored(job_queue[i]) /\ StatusOf(job_queue[i]) = "queued"
              /\ enq[job_queue[i]] = 1 /\ deq[job_queue[i]] = 0
              /\ \A j \in 1..Len(job_queue) :
                    job_queue[i] = job_queue[j] => i = j
        /\ \A id \in JobIds :
              (enq[id] = 1 /\ deq[id] = 0) =>
                  \E i \in 1..Len(job_queue) : job_queue[i] = id
        /\ \A id \in DOMAIN job_store :
              LET admitted == /\ StatusOf(id) = "queued"
                              /\ job_store'[id]["status"] = "processing"
                  taken    == deq'[id] = deq[id] + 1
              IN  /\ admitted <=> taken
                  /\ deq'[id] # deq[id] => taken
                  /\ taken => /\ job_queue # << >>
                              /\ id = Head(job_queue)
                              /\ job_queue' = Tail(job_queue)
        /\ job_queue' # job_queue =>
              \/ job_queue # << >> /\ job_queue' = Tail(job_queue)
              \/ \E id \in JobIds : /\ enq'[id] = enq[id] + 1
                                    /\ job_queue' = Append(job_queue, id)
      ]_vars

\* The second request was put first and is already processing while the
\* first request, put after it, still waits at the head of the queue.
C20_Witness ==
    /\ job_queue = << 1 >>
    /\ Stored(2) /\ StatusOf(2) = "processing" /\ deq[2] = 1
    /\ StatusOf(1) = "queued"

\* C21: the queue and the store agree. Every id on the queue is there once
\* and has a record that is queued; an id that was put or taken has its
\* record (records are never removed, so a worker never finds the record of
\* an id absent); and every queued record is on the queue or belongs to a
\* submit call that has not returned yet.
C21_QueueStoreConsistent ==
    /\ \A i \in 1..Len(job_queue) :
          /\ Stored(job_queue[i])
          /\ StatusOf(job_queue[i]) = "queued"
          /\ \A j \in 1..Len(job_queue) : job_queue[i] = job_queue[j] => i = j
    /\ \A id \in JobIds :
          (enq[id] >= 1 \/ deq[id] >= 1 \/ req[id] = "persist") => Stored(id)
    /\ \A id \in DOMAIN job_store :
          StatusOf(id) = "queued" =>
              \/ \E i \in 1..Len(job_queue) : job_queue[i] = id
              \/ req[id] # "done"

=============================================================================
